---------------------------- MODULE Spec2Model ----------------------------
(***************************************************************************)
(* The TOON Pi client (devices/pi-client/toon_client): the token codec,    *)
(* the symbolic signatures, the protocol operations of DeviceClient and    *)
(* the run loop.                                                           *)
(*                                                                         *)
(* Representation of Python values.                                        *)
(*   str    a sequence of pieces.  A piece is one character ("A", "7",     *)
(*          ":", "|") or an atom standing for a run of characters that     *)
(*          holds no delimiter ("registered", "2.0.0").  "" is <<>>.       *)
(*          Keys and numerals are spelled character by character, because  *)
(*          the code looks inside them (startswith, sorted, regex, int).   *)
(*   dict   a sequence of items in insertion order, keys unique:           *)
(*          <<k, v>> for tokens[k] = v and <<k>> for tokens[k] = None.     *)
(*   the base64 text of an Ed25519 signature: one atom, written from the   *)
(*          signing key and the signed text (sign below); signing is       *)
(*          deterministic and no two (key, text) share a signature.        *)
(***************************************************************************)
EXTENDS Integers, Sequences, FiniteSets, TLC

(***************************************************************************)
(* Characters and strings                                                  *)
(***************************************************************************)

\* The characters the keys are written in, in code point order.
CodePoints ==
    << ".", "0", "1", "2", "3", "4", "5", "6", "7", "8", "9", ":",
       "A", "B", "C", "D", "E", "F", "G", "H", "I", "J", "K", "L", "M",
       "N", "O", "P", "Q", "R", "S", "T", "U", "V", "W", "X", "Y", "Z",
       "[", "]", "_", "|" >>

\* the position of each character in that order
CodePointOf ==
    [c \in {CodePoints[i] : i \in DOMAIN CodePoints} |->
        CHOOSE i \in DOMAIN CodePoints : CodePoints[i] = c]

ord(c) == CodePointOf[c]

Digits == <<"0", "1", "2", "3", "4", "5", "6", "7", "8", "9">>

IsDigit(c) == \E i \in DOMAIN Digits : Digits[i] = c

IsUpper(c) == c \in {CodePoints[i] : i \in 13..38}

SetMin(S) == CHOOSE x \in S : \A y \in S : x <= y

\* Python's str < str: the first differing character decides, else the length.
RECURSIVE LessFrom(_, _, _)
LessFrom(a, b, i) ==
    IF i > Len(a) \/ i > Len(b) THEN Len(a) < Len(b)
    ELSE IF a[i] = b[i] THEN LessFrom(a, b, i + 1)
    ELSE ord(a[i]) < ord(b[i])

StrLess(a, b) == LessFrom(a, b, 1)

\* str.startswith(prefix)
startswith(s, prefix) ==
    Len(s) >= Len(prefix) /\ SubSeq(s, 1, Len(prefix)) = prefix

\* the merge of two ascending lists of strings
RECURSIVE Merge(_, _)
Merge(a, b) ==
    IF a = <<>> THEN b
    ELSE IF b = <<>> THEN a
    ELSE IF StrLess(b[1], a[1]) THEN <<b[1]>> \o Merge(a, Tail(b))
    ELSE <<a[1]>> \o Merge(Tail(a), b)

\* sorted(strings): ascending by StrLess
RECURSIVE sorted(_)
sorted(s) ==
    IF Len(s) <= 1 THEN s
    ELSE LET half == Len(s) \div 2
         IN  Merge(sorted(SubSeq(s, 1, half)), sorted(SubSeq(s, half + 1, Len(s))))

\* int(s) is defined (no ValueError) on an optional sign and decimal digits.
IsInt(s) ==
    LET body == IF Len(s) > 0 /\ s[1] \in {"-", "+"} THEN Tail(s) ELSE s
    IN  Len(body) > 0 /\ \A i \in DOMAIN body : IsDigit(body[i])

RECURSIVE NatOf(_)
NatOf(s) ==
    IF s = <<>> THEN 0
    ELSE 10 * NatOf(SubSeq(s, 1, Len(s) - 1))
         + ((CHOOSE i \in DOMAIN Digits : Digits[i] = s[Len(s)]) - 1)

int(s) ==
    IF s[1] = "-" THEN 0 - NatOf(Tail(s))
    ELSE IF s[1] = "+" THEN NatOf(Tail(s))
    ELSE NatOf(s)

\* str(n) for n >= 0
RECURSIVE str(_)
str(n) ==
    IF n < 10 THEN <<Digits[n + 1]>>
    ELSE str(n \div 10) \o <<Digits[(n % 10) + 1]>>

(***************************************************************************)
(* dict                                                                    *)
(***************************************************************************)

keys(d) == {d[i][1] : i \in DOMAIN d}

Has(d, k) == \E i \in DOMAIN d : d[i][1] = k

IndexOf(d, k) == CHOOSE i \in DOMAIN d : d[i][1] = k

\* d[k] is None
IsNone(d, k) == Len(d[IndexOf(d, k)]) = 1

\* d[k], for a key that is present with a value
Get(d, k) == d[IndexOf(d, k)][2]

\* d.get(k, default), for a dict that holds no None
GetOr(d, k, default) == IF Has(d, k) THEN Get(d, k) ELSE default

\* the truth value of d.get(k): present and not the empty string
Truthy(d, k) == Has(d, k) /\ ~IsNone(d, k) /\ Get(d, k) # <<>>

\* d[item key] = item value: a present key keeps its position, a new one goes
\* last
PutItem(d, item) ==
    IF Has(d, item[1]) THEN [d EXCEPT ![IndexOf(d, item[1])] = item]
    ELSE Append(d, item)

Put(d, k, v) == PutItem(d, <<k, v>>)

\* the dict holding the items of `items`, put one after the other
RECURSIVE DictOf(_)
DictOf(items) ==
    IF items = <<>> THEN <<>>
    ELSE PutItem(DictOf(SubSeq(items, 1, Len(items) - 1)), items[Len(items)])

\* {k: d[k] for k in ks if k in d}
RECURSIVE Restrict(_, _)
Restrict(d, ks) ==
    IF ks = <<>> THEN <<>>
    ELSE IF Has(d, Head(ks))
         THEN <<d[IndexOf(d, Head(ks))]>> \o Restrict(d, Tail(ks))
         ELSE Restrict(d, Tail(ks))

\* {k: v for k, v in d.items() if k in ks}
SelectKeys(d, ks) == SelectSeq(d, LAMBDA item : item[1] \in ks)

(***************************************************************************)
(* toon.py: the token codec                                                *)
(***************************************************************************)

SIG_PREFIX ==
    << <<"S", "I", "G">>,
       <<"F", "W", "_", "S", "I", "G">>,
       <<"S", "I", "G", "_", "S", "E", "R", "V">> >>

\* IsSigKey with `k in SIG_PREFIX` for k.startswith(SIG_PREFIX): under it C21
\* is violated
IsSigKeyEqual(k) == \E i \in DOMAIN SIG_PREFIX : k = SIG_PREFIX[i]

\* k.startswith(SIG_PREFIX), the prefix being a tuple of strings
IsSigKey(k) == \E i \in DOMAIN SIG_PREFIX : startswith(k, SIG_PREFIX[i])

\* sep.join(parts)
RECURSIVE join(_, _)
join(sep, parts) ==
    IF parts = <<>> THEN <<>>
    ELSE IF Len(parts) = 1 THEN parts[1]
    ELSE parts[1] \o sep \o join(sep, Tail(parts))

\* f"{k}:{v}"
KeyColonValue(item) == item[1] \o <<":">> \o item[2]

\* `for k in sorted(tokens.keys())`: the item of each key in turn; those of
\* a signature key or of value None are passed over
to_canonical_string(tokens) ==
    LET ks    == sorted([i \in DOMAIN tokens |-> tokens[i][1]])
        its   == [i \in DOMAIN ks |-> tokens[IndexOf(tokens, ks[i])]]
        kept  == SelectSeq(its, LAMBDA item : ~IsSigKey(item[1]) /\ Len(item) = 2)
    IN  join(<<"|">>, [i \in DOMAIN kept |-> KeyColonValue(kept[i])])

build_payload(tokens) ==
    LET kept  == SelectSeq(tokens, LAMBDA item : Len(item) = 2)
        items == [i \in DOMAIN kept |-> KeyColonValue(kept[i])]
    IN  join(<<"|">>, items)

Whitespace == {" ", "\t", "\n", "\r"}

\* str.strip()
RECURSIVE strip(_)
strip(s) ==
    IF s = <<>> THEN s
    ELSE IF s[1] \in Whitespace THEN strip(Tail(s))
    ELSE IF s[Len(s)] \in Whitespace THEN strip(SubSeq(s, 1, Len(s) - 1))
    ELSE s

\* the index of the first piece of s equal to c, 0 when there is none
find(s, c) ==
    IF \E i \in DOMAIN s : s[i] = c
    THEN CHOOSE i \in DOMAIN s : s[i] = c /\ \A j \in 1..(i - 1) : s[j] # c
    ELSE 0

\* str.split(sep) for a one-character separator
RECURSIVE split(_, _)
split(s, sep) ==
    LET at == find(s, sep)
    IN  IF at = 0 THEN <<s>>
        ELSE <<SubSeq(s, 1, at - 1)>> \o split(SubSeq(s, at + 1, Len(s)), sep)

\* p.split(":", 1) of a part that holds a ":", as an item
SplitFirstColon(p) ==
    LET at == find(p, ":")
    IN  << SubSeq(p, 1, at - 1), SubSeq(p, at + 1, Len(p)) >>

parse_tokens(payload) ==
    IF payload = <<>> THEN <<>>
    ELSE LET parts == split(strip(payload), "|")
             with  == SelectSeq(parts, LAMBDA p : find(p, ":") # 0)
         IN  DictOf([i \in DOMAIN with |-> SplitFirstColon(with[i])])

\* _array_key_re: ^(?P<prefix>[A-Z0-9]+)\[(?P<idx>\d+)\]\.(?P<key>[A-Z0-9_]+)$
\* The groups cannot hold "[" or "]", so the brackets of a match are the first.
ArrayKeyMatches(k) ==
    LET lb == find(k, "[")
        rb == find(k, "]")
    IN  /\ lb > 1
        /\ \A i \in 1..(lb - 1) : IsUpper(k[i]) \/ IsDigit(k[i])
        /\ rb > lb + 1
        /\ \A i \in (lb + 1)..(rb - 1) : IsDigit(k[i])
        /\ Len(k) >= rb + 2
        /\ k[rb + 1] = "."
        /\ \A i \in (rb + 2)..Len(k) : IsUpper(k[i]) \/ IsDigit(k[i]) \/ k[i] = "_"

ArrayKeyGroups(k) ==
    [ prefix |-> SubSeq(k, 1, find(k, "[") - 1),
      idx    |-> int(SubSeq(k, find(k, "[") + 1, find(k, "]") - 1)),
      key    |-> SubSeq(k, find(k, "]") + 2, Len(k)) ]

\* the integers of a finite set, ascending
RECURSIVE SortedInts(_)
SortedInts(S) ==
    IF S = {} THEN <<>> ELSE <<SetMin(S)>> \o SortedInts(S \ {SetMin(S)})

parse_array_tokens(tokens, prefix) ==
    LET hits == SelectSeq(tokens, LAMBDA item :
                    /\ ArrayKeyMatches(item[1])
                    /\ ArrayKeyGroups(item[1]).prefix = prefix)
        idxs == SortedInts({ArrayKeyGroups(hits[i][1]).idx : i \in DOMAIN hits})
        bucket(n) ==
            LET mine == SelectSeq(hits, LAMBDA item : ArrayKeyGroups(item[1]).idx = n)
            IN  DictOf([i \in DOMAIN mine |->
                    IF Len(mine[i]) = 2
                    THEN <<ArrayKeyGroups(mine[i][1]).key, mine[i][2]>>
                    ELSE <<ArrayKeyGroups(mine[i][1]).key>>])
    IN  [i \in DOMAIN idxs |-> bucket(idxs[i])]

\* f"{prefix}[{i}].{k}"
ArrayKey(prefix, i, k) == prefix \o <<"[">> \o str(i) \o <<"]", ".">> \o k

RECURSIVE build_array_tokens(_, _)
build_array_tokens(items, prefix) ==
    LET n     == Len(items)
        count == <<prefix \o <<"_", "C", "O", "U", "N", "T">>, str(n)>>
        rows(i) == [j \in DOMAIN items[i] |->
                      IF Len(items[i][j]) = 2
                      THEN <<ArrayKey(prefix, i - 1, items[i][j][1]), items[i][j][2]>>
                      ELSE <<ArrayKey(prefix, i - 1, items[i][j][1])>>]
        flat[i \in 0..n] == IF i = 0 THEN <<>> ELSE flat[i - 1] \o rows(i)
    IN  PutItem(DictOf(flat[n]), count)

(***************************************************************************)
(* The token keys of client.py                                             *)
(***************************************************************************)

K ==
    [ D1 |-> <<"D", "1">>, D2 |-> <<"D", "2">>, D3 |-> <<"D", "3">>,
      D4 |-> <<"D", "4">>, D5 |-> <<"D", "5">>,
      TS |-> <<"T", "S">>, NONCE |-> <<"N", "O", "N", "C", "E">>,
      SIG1 |-> <<"S", "I", "G", "1">>,
      HB1 |-> <<"H", "B", "1">>, HB2 |-> <<"H", "B", "2">>,
      HB3 |-> <<"H", "B", "3">>, HB4 |-> <<"H", "B", "4">>,
      HB5 |-> <<"H", "B", "5">>, HB6 |-> <<"H", "B", "6">>,
      FW1 |-> <<"F", "W", "1">>, FW2 |-> <<"F", "W", "2">>,
      FW3 |-> <<"F", "W", "3">>, FW4 |-> <<"F", "W", "4">>,
      FW5 |-> <<"F", "W", "5">>,
      FW_SIG |-> <<"F", "W", "_", "S", "I", "G">>,
      CMD |-> <<"C", "M", "D">>,
      CMD1 |-> <<"C", "M", "D", "1">>, CMD2 |-> <<"C", "M", "D", "2">>,
      CMD3 |-> <<"C", "M", "D", "3">>, CMD4 |-> <<"C", "M", "D", "4">>,
      CMD5 |-> <<"C", "M", "D", "5">>,
      SIG_SERV |-> <<"S", "I", "G", "_", "S", "E", "R", "V">>,
      ACK1 |-> <<"A", "C", "K", "1">>, ACK2 |-> <<"A", "C", "K", "2">>,
      ACK3 |-> <<"A", "C", "K", "3">>,
      S1 |-> <<"S", "1">>, RTO |-> <<"R", "T", "O">>,
      PENDING_CMDS |-> <<"P", "E", "N", "D", "I", "N", "G", "_", "C", "M", "D", "S">>,
      FW_AVAILABLE |-> <<"F", "W", "_", "A", "V", "A", "I", "L", "A", "B", "L", "E">> ]

(***************************************************************************)
(* keys.py: the device identity and signature verification                 *)
(***************************************************************************)

\* The key pairs that exist: the device's own (load_or_create_keys), the
\* server's, and one of a third party.  pub is the base64 text of the public key.
KeyPairs ==
    { [sk |-> "device_sk",  pub |-> <<"DEVICE_PUB">>],
      [sk |-> "server_sk",  pub |-> <<"SERVER_PUB">>],
      [sk |-> "mallory_sk", pub |-> <<"MALLORY_PUB">>] }

\* DeviceKeys.sign: the base64 text of the signature of `data` under `sk`
sign(sk, data) == <<ToString(<<sk, data>>)>>

\* DeviceKeys.verify_with_public_b64: a malformed key or signature, and a
\* signature of another key or text, all give False
verify_with_public_b64(public_key_b64, data, signature_b64) ==
    \E kp \in KeyPairs :
        /\ kp.pub = public_key_b64
        /\ signature_b64 = sign(kp.sk, data)

DeviceSk == "device_sk"

public_key_b64 == <<"DEVICE_PUB">>

(***************************************************************************)
(* config.py                                                               *)
(***************************************************************************)

DEVICE_ID == <<"pi-01">>

MANUFACTURER == <<"Raspberry_Pi_Foundation">>

MODEL == <<"Pi_4_Model_B">>

FIRMWARE_VERSION == <<"1.0.0">>

DEFAULT_RTO_SECONDS == 60

MAX_BACKOFF_SECONDS == 600

(***************************************************************************)
(* Bounds of the model                                                     *)
(***************************************************************************)

\* a poll response lists at most MaxCmds commands
MaxCmds == 2

\* run_forever is followed for MaxIterations iterations and the sleep that
\* ends the last of them
MaxIterations == 1

\* against the idle server run_forever is followed for MaxIdleIterations
\* iterations, enough for the doubling to go from the floor to the ceiling
MaxIdleIterations == 5

\* DeviceClient._nonce: secrets.token_hex(16) draws one of these, whatever
\* the ledger holds
Nonces == {<<"n1">>, <<"n2">>}

(***************************************************************************)
(* State                                                                   *)
(***************************************************************************)

VARIABLES
    SERVER_PUBLIC_KEY_BASE64, \* config.py: the configured server key, "" if unset
    server,      \* the server the device talks to: what its responses vary in
    pc,          \* where the driver (run_forever, or a scenario script) stands
    iteration,   \* run_forever: the number of the iteration of `while True`
    rto_sec,     \* DeviceClient.rto_sec
    current_fw,  \* DeviceClient.current_fw
    backoff,     \* run_forever: backoff
    resp,        \* run_forever: resp, the heartbeat response of the iteration
    cmds,        \* run_forever: cmds
    ci,          \* run_forever: the position of `for c in cmds`, from 1
    fw_resp,     \* run_forever: fw_resp
    ledger,      \* storage.py: the rows of table nonces
    emitted,     \* the nonces of the messages handed to the transport so far
    outbox,      \* the exchanges begun since the iteration began, in brief
    audit_log,   \* the rows audit() wrote since the iteration began
    slept,       \* the interval of the last sleep and whether it followed a
                 \* failed iteration; before the first sleep, the interval
                 \* registration left
    ret          \* the last operation: its name, arguments, inputs and outcome

vars == << SERVER_PUBLIC_KEY_BASE64, server, pc, iteration, rto_sec, current_fw,
           backoff, resp, cmds, ci, fw_resp, ledger, emitted, outbox, audit_log,
           slept, ret >>

(***************************************************************************)
(* client.py: the operations of DeviceClient.                              *)
(*                                                                         *)
(* An operation is an operator from the state it reads and its inputs `e`  *)
(* (the nonce drawn, the call that fails if any, the response text) to its *)
(* outcome: raised ("" or the exception), value (what it returns), sent    *)
(* (the messages handed to the transport, in order), audits (the rows      *)
(* written), trace (the steps taken), and the fields it assigns.           *)
(***************************************************************************)

\* DeviceClient._ts: the clock reading, one fixed instant
ts_now == <<"2025-12-02T10:30:00.000Z">>

Max(a, b) == IF a > b THEN a ELSE b

Min(a, b) == IF a < b THEN a ELSE b

\* what an operation leaves behind; the fields it assigns are added by it
Outcome(raised, value, sent, audits, trace) ==
    [ raised |-> raised, value |-> value, sent |-> sent, audits |-> audits,
      trace |-> trace ]

\* the body of a message handed to the transport: build_payload(tokens)
Payload(msg) == build_payload(msg.tokens)

\* One exchange: payload = build_payload(tokens); audit(kind, "out", payload);
\* post or get; audit(kind, "in", text).  `known` is the nonce ledger at that
\* moment; a message handed to the transport is kept as its tokens and
\* notes whether its nonce is in the ledger.  Gives raised, sent, audits and
\* the parsed response (http.py: parse_tokens(text)).  post and get return
\* resp.status too (e.status), which they do not look at and DeviceClient
\* never reads.
Exchange(kind, method, path, tokens, known, e) ==
    LET msg == [ method |-> method, path |-> path, tokens |-> tokens,
                 recorded |-> Get(tokens, K.NONCE) \in known ]
    IN  CASE e.fault = "audit_out" ->
               [raised |-> "sqlite3.Error", sent |-> <<>>, audits |-> <<>>,
                resp |-> <<>>]
          [] e.fault = "post" ->
               [raised |-> "aiohttp.ClientError", sent |-> <<msg>>,
                audits |-> << <<kind, "out">> >>, resp |-> <<>>]
          [] e.fault = "audit_in" ->
               [raised |-> "sqlite3.Error", sent |-> <<msg>>,
                audits |-> << <<kind, "out">> >>, resp |-> <<>>]
          [] OTHER ->
               [raised |-> "", sent |-> <<msg>>,
                audits |-> << <<kind, "out">>, <<kind, "in">> >>,
                resp |-> parse_tokens(e.text)]

\* tokens["SIG1"] = self.keys.sign(to_canonical_string(tokens).encode())
Signed(tokens) == Put(tokens, K.SIG1, sign(DeviceSk, to_canonical_string(tokens)))

\* a registration whose status any response passes for
RegistrationAcceptedAlways(r) == TRUE

\* line 49, negated: resp.get("S1") in {"registered", "ok"}
RegistrationAccepted(r) ==
    /\ Has(r, K.S1)
    /\ Get(r, K.S1) \in {<<"registered">>, <<"ok">>}

\* register.  trace holds the response, when there is one.
register(e) ==
    LET tokens == Signed(<< <<K.D1, DEVICE_ID>>, <<K.D2, <<"RPI_TERMINAL">>>>,
                            <<K.D3, public_key_b64>>, <<K.D4, MANUFACTURER>>,
                            <<K.D5, MODEL>>, <<K.TS, ts_now>>,
                            <<K.NONCE, e.nonce>> >>)
        x == Exchange("register", "POST", "/api/devices/register",
                      tokens, ledger, e)
        t == <<x.resp>>
    IN  IF x.raised # ""
        THEN Outcome(x.raised, <<>>, x.sent, x.audits, <<>>) @@ [rto_sec |-> rto_sec]
        ELSE IF ~RegistrationAccepted(x.resp)
        THEN Outcome("RuntimeError", <<>>, x.sent, x.audits, t) @@ [rto_sec |-> rto_sec]
        ELSE IF ~Has(x.resp, K.RTO)
        THEN Outcome("", <<>>, x.sent, x.audits, t) @@ [rto_sec |-> rto_sec]
        ELSE IF ~IsInt(Get(x.resp, K.RTO))
        THEN Outcome("ValueError", <<>>, x.sent, x.audits, t) @@ [rto_sec |-> rto_sec]
        ELSE Outcome("", <<>>, x.sent, x.audits, t)
             @@ [rto_sec |-> Max(10, int(Get(x.resp, K.RTO)))]

\* device.py: the telemetry readings, fixed
Telemetry ==
    << <<K.HB1, <<"hb_1764671400">>>>, <<K.HB2, <<"3600">>>>,
       <<K.HB3, <<"512">>>>, <<K.HB4, <<"48.5">>>>,
       <<K.HB5, <<"2025-12-02T09:30:00Z">>>>, <<K.HB6, <<"ONLINE">>>> >>

heartbeat_once(e) ==
    LET tokens == Signed(<< <<K.D1, DEVICE_ID>> >> \o Telemetry
                         \o << <<K.FW2, current_fw>>, <<K.TS, ts_now>>,
                                <<K.NONCE, e.nonce>> >>)
        added == ledger \cup {e.nonce}
        x == Exchange("heartbeat", "POST", "/api/devices/heartbeat",
                      tokens, added, e)
    IN  IF e.fault = "add_nonce"
        THEN Outcome("sqlite3.Error", <<>>, <<>>, <<>>, <<>>)
             @@ [rto_sec |-> rto_sec, ledger |-> ledger]
        ELSE IF x.raised # ""
        THEN Outcome(x.raised, <<>>, x.sent, x.audits, <<>>)
             @@ [rto_sec |-> rto_sec, ledger |-> added]
        ELSE IF ~Truthy(x.resp, K.RTO)
        THEN Outcome("", x.resp, x.sent, x.audits, <<>>)
             @@ [rto_sec |-> rto_sec, ledger |-> added]
        ELSE IF ~IsInt(Get(x.resp, K.RTO))
        THEN Outcome("ValueError", <<>>, x.sent, x.audits, <<>>)
             @@ [rto_sec |-> rto_sec, ledger |-> added]
        ELSE Outcome("", x.resp, x.sent, x.audits, <<>>)
             @@ [rto_sec |-> Min(MAX_BACKOFF_SECONDS,
                                 Max(10, int(Get(x.resp, K.RTO)))),
                 ledger |-> added]

_verify_server_signature(tokens_subset, signature_b64) ==
    IF SERVER_PUBLIC_KEY_BASE64 = <<>> THEN FALSE
    ELSE verify_with_public_b64(SERVER_PUBLIC_KEY_BASE64,
                                to_canonical_string(tokens_subset), signature_b64)

\* the keys of a command that its signature covers
CommandSigned == {K.CMD1, K.CMD2, K.CMD3, K.CMD4, K.CMD5, K.TS}

\* PollAccepts without the call of _verify_server_signature: under it C1
\* is violated
PollAcceptsUnverified(c) ==
    /\ Truthy(c, K.SIG_SERV)
    /\ SERVER_PUBLIC_KEY_BASE64 # <<>>

\* the body of `for c in cmds` in commands_poll: whether c is appended
PollAccepts(c) ==
    /\ Truthy(c, K.SIG_SERV)
    /\ SERVER_PUBLIC_KEY_BASE64 # <<>>
    /\ _verify_server_signature(SelectKeys(c, CommandSigned), Get(c, K.SIG_SERV))

commands_poll(e) ==
    LET tokens == Signed(<< <<K.D1, DEVICE_ID>>, <<K.TS, ts_now>>,
                            <<K.NONCE, e.nonce>> >>)
        x == Exchange("commands_poll", "GET", "/api/devices/commands",
                      tokens, ledger, e)
        decoded == parse_array_tokens(x.resp, K.CMD)
    IN  IF x.raised # ""
        THEN Outcome(x.raised, <<>>, x.sent, x.audits, <<>>)
        ELSE Outcome("", SelectSeq(decoded, PollAccepts), x.sent, x.audits, decoded)

command_ack(cmd_id, ok, message, duration_ms, e) ==
    LET tokens == Signed(<< <<K.D1, DEVICE_ID>>, <<K.CMD1, cmd_id>>,
                            <<K.ACK1, IF ok THEN <<"OK">> ELSE <<"ERROR">>>>,
                            <<K.ACK2, message>>, <<K.ACK3, str(duration_ms)>>,
                            <<K.TS, ts_now>>, <<K.NONCE, e.nonce>> >>)
        x == Exchange("command_ack", "POST", "/api/devices/command-ack",
                      tokens, ledger, e)
    IN  Outcome(x.raised, x.resp, x.sent, x.audits, <<>>)

firmware_check(e) ==
    LET tokens == Signed(<< <<K.D1, DEVICE_ID>>, <<K.FW2, current_fw>>,
                            <<K.TS, ts_now>>, <<K.NONCE, e.nonce>> >>)
        x == Exchange("fw_check", "POST", "/api/devices/firmware/check",
                      tokens, ledger, e)
    IN  Outcome(x.raised, x.resp, x.sent, x.audits, <<>>)

\* HandleTry with ok left True for every type: under it C7 is violated
HandleTryAlwaysOk(cmd) ==
    LET ctype == GetOr(cmd, K.CMD2, <<>>)
    IN  IF ctype = <<"RESTART">>
        THEN [ok |-> TRUE, message |-> <<"Restart simulated">>]
        ELSE IF ctype = <<"FETCH_LOGS">>
        THEN [ok |-> TRUE,
              message |-> IF Truthy(cmd, K.CMD3) THEN Get(cmd, K.CMD3)
                          ELSE <<"logs captured">>]
        ELSE [ok |-> TRUE, message |-> <<"unsupported command ">> \o ctype]

\* _handle_command, the try block: ok and message by the type of the
\* command.  It cannot raise (dict.get and string formatting only).
HandleTry(cmd) ==
    LET ctype == GetOr(cmd, K.CMD2, <<>>)
    IN  IF ctype = <<"RESTART">>
        THEN [ok |-> TRUE, message |-> <<"Restart simulated">>]
        ELSE IF ctype = <<"FETCH_LOGS">>
        THEN [ok |-> TRUE,
              message |-> IF Truthy(cmd, K.CMD3) THEN Get(cmd, K.CMD3)
                          ELSE <<"logs captured">>]
        ELSE [ok |-> FALSE, message |-> <<"unsupported command ">> \o ctype]

\* _handle_command: the finally block makes the command_ack call, whose
\* exception leaves _handle_command.  trace lists the command_ack calls.
_handle_command(cmd, e) ==
    LET cmd_id == GetOr(cmd, K.CMD1, <<>>)
        t      == HandleTry(cmd)
        dur_ms == 0
        a == command_ack(cmd_id, t.ok, t.message, dur_ms, e)
    IN  Outcome(a.raised, <<>>, a.sent, a.audits,
                << [cmd_id |-> cmd_id, ok |-> t.ok, message |-> t.message] >>)

\* hashlib.sha256(bytes).hexdigest(): lower-case hex, one value per content
sha256_hexdigest(content) ==
    CASE content = "image_a" -> <<"aa11">>
      [] content = "image_b" -> <<"bb22">>
      [] OTHER -> <<"e3b0">>

\* _download_to: False without a URL, on a status other than 200 and on any
\* exception; else the body is written to the staging path.  e.download is
\* "fail" or the content served.
_download_to(url, e) == url # <<>> /\ e.download # "fail"

\* _apply_staged: os.path.exists(path), False on any exception
_apply_staged(e) == e.exists

\* the keys of a manifest that its signature covers, in the order of the code
ManifestSigned == <<K.FW1, K.FW2, K.FW4, K.FW5>>

\* InstalledFirmware without `if applied`: under it C6 is violated
InstalledFirmwareAlways(fw, applied) == GetOr(fw, K.FW2, current_fw)

\* if applied: self.current_fw = resp.get("FW2", self.current_fw)
InstalledFirmware(fw, applied) ==
    IF applied THEN GetOr(fw, K.FW2, current_fw) ELSE current_fw

\* CurrentFwAfterFailedAck with the assignment of line 182 made before the
\* acknowledgment is sent: under it C24 is violated
CurrentFwAssignedBeforeAck(fw, applied) == InstalledFirmware(fw, applied)

\* current_fw when one of lines 178-180 (audit, post, audit) raised: lines
\* 181-182 were not reached
CurrentFwAfterFailedAck(fw, applied) == current_fw

\* firmware_apply_flow.  trace lists the stages gone through.
firmware_apply_flow(fw, force_fail, e) ==
    LET fw_sig_ok ==
            /\ Truthy(fw, K.FW_SIG)
            /\ _verify_server_signature(Restrict(fw, ManifestSigned),
                                        Get(fw, K.FW_SIG))
        url          == GetOr(fw, K.FW3, <<>>)
        checksum_hex == GetOr(fw, K.FW4, <<>>)
        fw_id        == GetOr(fw, K.FW1, <<"fw">>)
        ok           == _download_to(url, e)
        t_download   == <<"manifest_verified">>
                        \o (IF url # <<>> THEN <<"download_started">> ELSE <<>>)
        mismatch     == checksum_hex # <<>>
                        /\ sha256_hexdigest(e.download) # checksum_hex
        t_checksum   == t_download
                        \o <<"download_ok">>
                        \o (IF checksum_hex # <<>> THEN <<"checksum_compared">>
                            ELSE <<"checksum_skipped">>)
        applied      == IF force_fail THEN FALSE ELSE _apply_staged(e)
        t_apply      == t_checksum
                        \o <<"apply_stage">>
                        \o (IF force_fail THEN <<>> ELSE <<"_apply_staged">>)
                        \o (IF applied THEN <<"applied">> ELSE <<"apply_failed">>)
        ack_tokens ==
            Signed(<< <<K.D1, DEVICE_ID>>, <<K.FW1, fw_id>>,
                      <<K.FW2, GetOr(fw, K.FW2, <<>>)>>,
                      <<K.ACK1, IF applied THEN <<"OK">> ELSE <<"ERROR">>>>,
                      <<K.ACK2, IF applied THEN <<"Firmware applied successfully">>
                                ELSE <<"Apply failed, rolled back">>>>,
                      <<K.TS, ts_now>>, <<K.NONCE, e.nonce>> >>)
        x == Exchange("fw_ack", "POST", "/api/devices/firmware/ack",
                      ack_tokens, ledger, e)
        \* one of the three `await audit(..., "ERR: ...")`, then `return False`
        Abort(kind, trace) ==
            IF e.fault = "audit_err"
            THEN Outcome("sqlite3.Error", FALSE, <<>>, <<>>, trace)
                 @@ [current_fw |-> current_fw]
            ELSE Outcome("", FALSE, <<>>, << <<kind, "in">> >>, trace)
                 @@ [current_fw |-> current_fw]
    IN  IF ~fw_sig_ok THEN Abort("fw_manifest", <<"manifest_rejected">>)
        ELSE IF ~ok THEN Abort("fw_download", t_download \o <<"download_failed">>)
        ELSE IF mismatch
        THEN Abort("fw_checksum", t_checksum \o <<"checksum_mismatch">>)
        ELSE IF x.raised # ""
        THEN Outcome(x.raised, FALSE, x.sent, x.audits, t_apply)
             @@ [current_fw |-> CurrentFwAfterFailedAck(fw, applied)]
        ELSE Outcome("", applied, x.sent, x.audits, t_apply)
             @@ [current_fw |-> InstalledFirmware(fw, applied)]

(***************************************************************************)
(* The server: the response texts the transport can deliver                *)
(***************************************************************************)

\* the server signs the canonical form of the signable keys of a command
ServerSignedCommand(sk, c) ==
    Put(c, K.SIG_SERV, sign(sk, to_canonical_string(SelectKeys(c, CommandSigned))))

Command(id, type) ==
    << <<K.CMD1, <<id>>>>, <<K.CMD2, <<type>>>>, <<K.TS, ts_now>> >>

\* The commands a poll response can list: three signed by the server (two
\* supported types, one unsupported), then one signed by another key, one
\* without SIG_SERV, one with an empty SIG_SERV and one altered after signing.
CommandPool ==
    << ServerSignedCommand("server_sk", Command("c1", "RESTART")),
       ServerSignedCommand("server_sk",
           Put(Command("c2", "FETCH_LOGS"), K.CMD3, <<"syslog">>)),
       ServerSignedCommand("server_sk", Command("c3", "WIPE")),
       ServerSignedCommand("mallory_sk", Command("c4", "RESTART")),
       Command("c5", "RESTART"),
       Put(Command("c6", "FETCH_LOGS"), K.SIG_SERV, <<>>),
       Put(ServerSignedCommand("server_sk", Command("c7", "FETCH_LOGS")),
           K.CMD2, <<"RESTART">>) >>

\* the strictly ascending index lists of length at most n over 1..m
RECURSIVE Ascending(_, _)
Ascending(m, n) ==
    IF n = 0 THEN {<<>>}
    ELSE LET shorter == Ascending(m, n - 1)
             longest == {q \in shorter : Len(q) = n - 1}
         IN  shorter \cup
             { s \in {Append(q, i) : q \in longest, i \in 1..m} :
                 \A j \in 1..(Len(s) - 1) : s[j] < s[j + 1] }

\* the command lists of a poll response: commands of the pool, in its order
CommandLists ==
    { [i \in DOMAIN q |-> CommandPool[q[i]]] :
        q \in Ascending(Len(CommandPool), MaxCmds) }

\* a dict of status S1 = s and the items of `more`
Reply(s, more) == << <<K.S1, <<s>>>> >> \o more

\* what a heartbeat response may signal about commands, firmware and RTO
PendingSignals ==
    { <<>>, << <<K.PENDING_CMDS, <<"0">>>> >>, << <<K.PENDING_CMDS, <<"2">>>> >>,
      << <<K.PENDING_CMDS, <<"many">>>> >> }

FirmwareSignals == { <<>>, << <<K.FW_AVAILABLE, <<"true">>>> >> }

RtoSignals == { <<>>, << <<K.RTO, <<"1", "2", "0">>>> >> }

\* the server signs the canonical form of the signable keys of a manifest
ServerSignedManifest(sk, m) ==
    Put(m, K.FW_SIG, sign(sk, to_canonical_string(Restrict(m, ManifestSigned))))

\* a manifest: id, target version, URL, checksum, size
Manifest(id, version, url, checksum, size) ==
    Reply("update_available",
          << <<K.FW1, id>>, <<K.FW2, version>>, <<K.FW3, url>>,
             <<K.FW4, checksum>>, <<K.FW5, size>> >>)

GoodManifest ==
    Manifest(<<"fw42">>, <<"2.0.0">>, <<"http", ":", "//cdn/fw42.bin">>,
             <<"aa11">>, <<"1024">>)

Without(d, k) == SelectSeq(d, LAMBDA item : item[1] # k)

\* The responses of a firmware check: no update, with an RTO; a manifest
\* signed by the server whose checksum is that of image_a; the same
\* unsigned, with an empty
\* signature, signed by another key, altered after signing; and manifests the
\* server signed that hold no checksum, an empty one, no URL, no version.
FirmwareReplies ==
    << Reply("up_to_date", << <<K.RTO, <<"1", "2", "0">>>> >>),
       ServerSignedManifest("server_sk", GoodManifest),
       GoodManifest,
       Put(GoodManifest, K.FW_SIG, <<>>),
       ServerSignedManifest("mallory_sk", GoodManifest),
       Put(ServerSignedManifest("server_sk", GoodManifest), K.FW2, <<"6.6.6">>),
       ServerSignedManifest("server_sk", Without(GoodManifest, K.FW4)),
       ServerSignedManifest("server_sk", Put(GoodManifest, K.FW4, <<>>)),
       ServerSignedManifest("server_sk", Without(GoodManifest, K.FW3)),
       ServerSignedManifest("server_sk", Without(GoodManifest, K.FW2)) >>

\* The servers a run can face.  Each varies its responses in one respect
\* and is plain in the others: "commands" in what a poll lists, "firmware"
\* in the manifest and the download, "mixed" in registration and RTO while
\* it signals both commands and, by a newer FW2, firmware; "idle" in the RTO
\* of registration and heartbeat, and it signals neither commands nor
\* firmware.
Servers == {"commands", "firmware", "mixed", "idle"}

\* the number of iterations run_forever is followed for, by server
Iterations(s) == IF s = "idle" THEN MaxIdleIterations ELSE MaxIterations

\* the response texts of each exchange, by server
RegisterTable ==
    [ mixed |-> { build_payload(Reply("registered", <<>>)),
                  build_payload(Reply("ok", << <<K.RTO, <<"5">>>> >>)),
                  build_payload(Reply("denied", <<>>)) },
      idle  |-> { build_payload(Reply("registered", <<>>)),
                  build_payload(Reply("ok", << <<K.RTO, <<"5">>>> >>)),
                  build_payload(Reply("ok", << <<K.RTO, <<"9", "0", "0">>>> >>)) },
      plain |-> { build_payload(Reply("registered", <<>>)) } ]

RegisterTexts(s) ==
    IF s \in {"mixed", "idle"} THEN RegisterTable[s] ELSE RegisterTable.plain

HeartbeatTable ==
    [ commands |-> { build_payload(Reply("ok", p)) : p \in PendingSignals },
      firmware |-> { build_payload(Reply("ok", f)) : f \in FirmwareSignals },
      mixed    |-> { build_payload(Reply("ok", << <<K.PENDING_CMDS, <<"2">>>>,
                                                 <<K.FW2, <<"2.0.0">>>> >>
                                              \o r)) : r \in RtoSignals },
      idle     |-> { build_payload(Reply("ok", <<>>)),
                     build_payload(Reply("ok", << <<K.RTO, <<"5">>>> >>)),
                     build_payload(Reply("ok", << <<K.RTO, <<"9", "0", "0">>>> >>)) } ]

HeartbeatTexts(s) == HeartbeatTable[s]

PollTable ==
    [ commands |-> { build_payload(build_array_tokens(l, K.CMD)) :
                       l \in CommandLists },
      plain    |-> { build_payload(build_array_tokens(l, K.CMD)) :
                       l \in { <<CommandPool[1]>>,
                               <<CommandPool[1], CommandPool[4]>> } } ]

PollTexts(s) == IF s = "commands" THEN PollTable.commands ELSE PollTable.plain

AckTexts == { build_payload(Reply("ok", <<>>)) }

FirmwareTable ==
    [ firmware |-> { build_payload(FirmwareReplies[i]) :
                       i \in DOMAIN FirmwareReplies },
      plain    |-> { build_payload(FirmwareReplies[i]) : i \in 1..2 } ]

FirmwareTexts(s) == IF s = "firmware" THEN FirmwareTable.firmware
                    ELSE FirmwareTable.plain

\* What becomes of the staging file: download is what the URL serves ("fail":
\* an error), exists whether the file written is still there at the apply
\* stage.
Stagings(s) ==
    IF s = "firmware"
    THEN { [download |-> "fail", exists |-> FALSE],
           [download |-> "image_a", exists |-> TRUE],
           [download |-> "image_a", exists |-> FALSE],
           [download |-> "image_b", exists |-> TRUE] }
    ELSE { [download |-> "image_a", exists |-> TRUE],
           [download |-> "image_a", exists |-> FALSE] }

\* The inputs of an operation that makes one exchange: the nonce drawn, the
\* call that raises ("none": no call does), the response text and the HTTP
\* status of the response.
Inputs(faults, texts) ==
    [nonce : Nonces, fault : {"none"}, text : texts, status : {200}]
    \cup [nonce : Nonces, fault : faults, text : {<<>>}, status : {200}]

\* a response with a non-success status and the error page of the server
ErrorResponses ==
    [nonce : Nonces, fault : {"none"}, text : {<<"Internal Server Error">>},
     status : {500}]

ExchangeFaults == {"audit_out", "post", "audit_in"}

\* the inputs of heartbeat_once; the idle server may answer with an error
HeartbeatInputs(s) ==
    Inputs(ExchangeFaults \cup {"add_nonce"}, HeartbeatTexts(s))
    \cup (IF s = "idle" THEN ErrorResponses ELSE {})

\* the inputs of firmware_apply_flow: those of its exchange and the staging
FlowInputs(s) ==
    { i @@ g : i \in Inputs(ExchangeFaults \cup {"audit_err"}, AckTexts),
               g \in Stagings(s) }

(***************************************************************************)
(* The drivers: runner.py (DeviceClient(); run_forever()) and              *)
(* scripts/scenario6_ota_update_failure.py                                 *)
(***************************************************************************)

\* the last operation, when it is a step of a driver that sends nothing
Step(op, raised) ==
    [ op |-> op, args |-> <<>>, inputs |-> <<>>, raised |-> raised,
      value |-> <<>>, sent |-> <<>>, audits |-> <<>>, trace |-> <<>> ]

\* the last operation, when it is operation op on args, with inputs e and
\* outcome o.  Of the inputs the nonce is in the message and the response
\* text in the value, the others are kept.  A message notes whether its
\* nonce repeats that of a message handed to the transport before.
Last(op, args, e, o) ==
    [ op |-> op, args |-> args,
      inputs |-> [k \in DOMAIN e \ {"nonce", "text"} |-> e[k]],
      raised |-> o.raised,
      value |-> o.value,
      sent |-> [i \in DOMAIN o.sent |->
                  o.sent[i] @@
                  [repeats |-> Get(o.sent[i].tokens, K.NONCE) \in emitted]],
      audits |-> o.audits,
      trace |-> o.trace ]

\* the nonces of the messages of o
NoncesOf(o) == {Get(o.sent[i].tokens, K.NONCE) : i \in DOMAIN o.sent}

\* DeviceClient.__init__ and a driver that has not started.  run_forever
\* runs against each server, scenario6 against the firmware server.
Init ==
    /\ SERVER_PUBLIC_KEY_BASE64 \in {<<>>, <<"SERVER_PUB">>}
    /\ \E d \in ({"run_forever"} \X Servers) \cup {<<"scenario6", "firmware">>} :
         pc = d[1] /\ server = d[2]
    /\ iteration = 0
    /\ rto_sec = DEFAULT_RTO_SECONDS
    /\ current_fw = FIRMWARE_VERSION
    /\ backoff = 0
    /\ resp = <<>>
    /\ cmds = <<>>
    /\ ci = 1
    /\ fw_resp = <<>>
    /\ ledger = {}
    /\ emitted = {}
    /\ outbox = <<>>
    /\ audit_log = <<>>
    /\ slept = [interval |-> 0, failed |-> FALSE]
    /\ ret = Step("__init__", "")

\* a message in brief: where it went, the command it is about, its status
Brief(msg) ==
    [ path |-> msg.path, CMD1 |-> GetOr(msg.tokens, K.CMD1, <<>>),
      ACK1 |-> GetOr(msg.tokens, K.ACK1, <<>>) ]

\* operation op on args, with inputs e and outcome o, becomes the last
\* operation
Done(op, args, e, o) ==
    /\ ret' = Last(op, args, e, o)
    /\ emitted' = emitted \cup NoncesOf(o)
    /\ outbox' = outbox \o [i \in DOMAIN o.sent |-> Brief(o.sent[i])]
    /\ audit_log' = audit_log \o o.audits

\* run_forever, lines 187-189: init_db(), register(), backoff = self.rto_sec.
\* An exception of either leaves run_forever.
RunStart ==
    /\ pc = "run_forever"
    /\ \/ /\ pc' = "exited"
          /\ ret' = Step("init_db", "sqlite3.Error")
          /\ UNCHANGED << iteration, rto_sec, backoff, emitted, outbox,
                          audit_log, slept >>
       \/ \E e \in Inputs(ExchangeFaults, RegisterTexts(server)) :
            LET o == register(e)
            IN  /\ Done("register", <<>>, e, o)
                /\ rto_sec' = o.rto_sec
                /\ backoff' = IF o.raised = "" THEN o.rto_sec ELSE backoff
                /\ pc' = IF o.raised = "" THEN "heartbeat" ELSE "exited"
                /\ iteration' = IF o.raised = "" THEN 1 ELSE iteration
                /\ slept' = IF o.raised = ""
                            THEN [interval |-> o.rto_sec, failed |-> FALSE]
                            ELSE slept
    /\ UNCHANGED << SERVER_PUBLIC_KEY_BASE64, server, current_fw, resp, cmds,
                    ci, fw_resp, ledger >>

\* line 192: resp = await self.heartbeat_once(), the first step of an
\* iteration; outbox and audit_log start again with it
RunHeartbeat ==
    /\ pc = "heartbeat"
    /\ iteration <= Iterations(server)
    /\ \E e \in HeartbeatInputs(server) :
         LET o == heartbeat_once(e)
         IN  /\ ret' = Last("heartbeat_once", <<>>, e, o)
             /\ emitted' = emitted \cup NoncesOf(o)
             /\ outbox' = [i \in DOMAIN o.sent |-> Brief(o.sent[i])]
             /\ audit_log' = o.audits
             /\ rto_sec' = o.rto_sec
             /\ ledger' = o.ledger
             /\ resp' = o.value
             /\ pc' = IF o.raised = "" THEN "commands" ELSE "except"
    /\ UNCHANGED << SERVER_PUBLIC_KEY_BASE64, server, iteration, current_fw,
                    backoff, cmds, ci, fw_resp, slept >>

\* lines 194-197: cmds = []; if pending and int(pending) > 0: commands_poll()
RunCommands ==
    /\ pc = "commands"
    /\ IF ~Truthy(resp, K.PENDING_CMDS)
       THEN /\ cmds' = <<>>
            /\ pc' = "firmware"
            /\ UNCHANGED << ret, emitted, outbox, audit_log >>
       ELSE IF ~IsInt(Get(resp, K.PENDING_CMDS))
       THEN /\ cmds' = <<>>
            /\ pc' = "except"
            /\ ret' = Step("int", "ValueError")
            /\ UNCHANGED << emitted, outbox, audit_log >>
       ELSE IF ~(int(Get(resp, K.PENDING_CMDS)) > 0)
       THEN /\ cmds' = <<>>
            /\ pc' = "firmware"
            /\ UNCHANGED << ret, emitted, outbox, audit_log >>
       ELSE \E e \in Inputs(ExchangeFaults, PollTexts(server)) :
              LET o == commands_poll(e)
              IN  /\ Done("commands_poll", <<>>, e, o)
                  /\ cmds' = o.value
                  /\ pc' = IF o.raised # "" THEN "except"
                            ELSE IF o.value = <<>> THEN "firmware"
                            ELSE "handle"
    /\ ci' = 1
    /\ UNCHANGED << SERVER_PUBLIC_KEY_BASE64, server, iteration, rto_sec,
                    current_fw, backoff, resp, fw_resp, ledger, slept >>

\* lines 198-199: one turn of `for c in cmds: await self._handle_command(c)`
RunHandle ==
    /\ pc = "handle"
    /\ \E e \in Inputs(ExchangeFaults, AckTexts) :
         LET o == _handle_command(cmds[ci], e)
         IN  /\ Done("_handle_command", cmds[ci], e, o)
             /\ pc' = IF o.raised # "" THEN "except"
                       ELSE IF ci = Len(cmds) THEN "firmware"
                       ELSE "handle"
             /\ ci' = IF o.raised # "" THEN ci ELSE ci + 1
    /\ UNCHANGED << SERVER_PUBLIC_KEY_BASE64, server, iteration, rto_sec,
                    current_fw, backoff, resp, cmds, fw_resp, ledger, slept >>

\* lines 201-203 and 205: the firmware check, if the heartbeat asked for one;
\* without an update to apply the try block ends with backoff = self.rto_sec
RunFirmware ==
    /\ pc = "firmware"
    /\ IF ~( (Has(resp, K.FW_AVAILABLE) /\ Get(resp, K.FW_AVAILABLE) = <<"true">>)
             \/ Truthy(resp, K.FW2) )
       THEN /\ pc' = "sleep"
            /\ backoff' = rto_sec
            /\ UNCHANGED << ret, emitted, outbox, audit_log, fw_resp >>
       ELSE \E e \in Inputs(ExchangeFaults, FirmwareTexts(server)) :
              LET o == firmware_check(e)
                  update == /\ o.raised = ""
                            /\ Has(o.value, K.S1)
                            /\ Get(o.value, K.S1) = <<"update_available">>
              IN  /\ Done("firmware_check", <<>>, e, o)
                  /\ fw_resp' = o.value
                  /\ pc' = IF o.raised # "" THEN "except"
                            ELSE IF update THEN "apply"
                            ELSE "sleep"
                  /\ backoff' = IF o.raised = "" /\ ~update THEN rto_sec
                                ELSE backoff
    /\ UNCHANGED << SERVER_PUBLIC_KEY_BASE64, server, iteration, rto_sec,
                    current_fw, resp, cmds, ci, ledger, slept >>

\* lines 204-205: await self.firmware_apply_flow(fw_resp); backoff = self.rto_sec
RunApply ==
    /\ pc = "apply"
    /\ \E e \in FlowInputs(server) :
         LET o == firmware_apply_flow(fw_resp, FALSE, e)
         IN  /\ Done("firmware_apply_flow", <<fw_resp, FALSE>>, e, o)
             /\ current_fw' = o.current_fw
             /\ pc' = IF o.raised # "" THEN "except" ELSE "sleep"
             /\ backoff' = IF o.raised = "" THEN rto_sec ELSE backoff
    /\ UNCHANGED << SERVER_PUBLIC_KEY_BASE64, server, iteration, rto_sec, resp,
                    cmds, ci, fw_resp, ledger, slept >>

\* a doubling that no floor and no ceiling bound
DoubledBackoffUnclamped(b) == b * 2

\* line 208: min(MAX_BACKOFF_SECONDS, max(10, int(backoff * 2)))
DoubledBackoff(b) == Min(MAX_BACKOFF_SECONDS, Max(10, b * 2))

\* lines 206-208: except Exception: audit("error", ...); the backoff doubles.
\* An exception of that audit call leaves run_forever.
RunExcept ==
    /\ pc = "except"
    /\ \/ /\ pc' = "exited"
          /\ ret' = Step("audit", "sqlite3.Error")
          /\ UNCHANGED << backoff, audit_log >>
       \/ /\ pc' = "sleep"
          /\ audit_log' = Append(audit_log, <<"error", "in">>)
          /\ backoff' = DoubledBackoff(backoff)
          /\ UNCHANGED ret
    /\ UNCHANGED << SERVER_PUBLIC_KEY_BASE64, server, iteration, rto_sec,
                    current_fw, resp, cmds, ci, fw_resp, ledger, emitted,
                    outbox, slept >>

\* line 209: await asyncio.sleep(backoff), then the next iteration, which
\* reads none of the locals before it assigns them
RunSleep ==
    /\ pc = "sleep"
    /\ iteration <= Iterations(server)
    /\ slept' = [interval |-> backoff, failed |-> ret.raised # ""]
    /\ pc' = "heartbeat"
    /\ iteration' = iteration + 1
    /\ resp' = <<>>
    /\ cmds' = <<>>
    /\ ci' = 1
    /\ fw_resp' = <<>>
    /\ outbox' = <<>>
    /\ audit_log' = <<>>
    /\ ret' = Step("sleep", "")
    /\ UNCHANGED << SERVER_PUBLIC_KEY_BASE64, server, rto_sec, current_fw,
                    backoff, ledger, emitted >>

\* scenario6, lines 5-6: c = DeviceClient(); await c.register()
Scenario6Register ==
    /\ pc = "scenario6"
    /\ \E e \in Inputs(ExchangeFaults, RegisterTexts(server)) :
         LET o == register(e)
         IN  /\ Done("register", <<>>, e, o)
             /\ rto_sec' = o.rto_sec
             /\ pc' = IF o.raised = "" THEN "scenario6_check" ELSE "exited"
    /\ UNCHANGED << SERVER_PUBLIC_KEY_BASE64, server, iteration, current_fw,
                    backoff, resp, cmds, ci, fw_resp, ledger, slept >>

\* scenario6, lines 7-8: resp = await c.firmware_check()
Scenario6Check ==
    /\ pc = "scenario6_check"
    /\ \E e \in Inputs(ExchangeFaults, FirmwareTexts(server)) :
         LET o == firmware_check(e)
         IN  /\ Done("firmware_check", <<>>, e, o)
             /\ fw_resp' = o.value
             /\ pc' = IF /\ o.raised = ""
                          /\ Has(o.value, K.S1)
                          /\ Get(o.value, K.S1) = <<"update_available">>
                       THEN "scenario6_apply" ELSE "exited"
    /\ UNCHANGED << SERVER_PUBLIC_KEY_BASE64, server, iteration, rto_sec,
                    current_fw, backoff, resp, cmds, ci, ledger, slept >>

\* scenario6, line 9: ok = await c.firmware_apply_flow(resp, force_fail=True)
Scenario6Apply ==
    /\ pc = "scenario6_apply"
    /\ \E e \in FlowInputs(server) :
         LET o == firmware_apply_flow(fw_resp, TRUE, e)
         IN  /\ Done("firmware_apply_flow", <<fw_resp, TRUE>>, e, o)
             /\ current_fw' = o.current_fw
    /\ pc' = "exited"
    /\ UNCHANGED << SERVER_PUBLIC_KEY_BASE64, server, iteration, rto_sec,
                    backoff, resp, cmds, ci, fw_resp, ledger, slept >>

Next ==
    \/ RunStart
    \/ RunHeartbeat
    \/ RunCommands
    \/ RunHandle
    \/ RunFirmware
    \/ RunApply
    \/ RunExcept
    \/ RunSleep
    \/ Scenario6Register
    \/ Scenario6Check
    \/ Scenario6Apply

Spec == Init /\ [][Next]_vars

(***************************************************************************)
(* The properties                                                          *)
(***************************************************************************)

CommandAckPath == "/api/devices/command-ack"

FirmwareAckPath == "/api/devices/firmware/ack"

\* the steps that run firmware_apply_flow start here
FlowCalls == {"apply", "scenario6_apply"}

\* the trace of the last operation holds stage
Went(stage) == \E i \in DOMAIN ret.trace : ret.trace[i] = stage

\* manifest fw carries a signature of the configured server key over the
\* canonical form of its {FW1, FW2, FW4, FW5}
ManifestVerifies(fw) ==
    /\ SERVER_PUBLIC_KEY_BASE64 # <<>>
    /\ Has(fw, K.FW_SIG)
    /\ verify_with_public_b64(SERVER_PUBLIC_KEY_BASE64,
           to_canonical_string(Restrict(fw, ManifestSigned)), Get(fw, K.FW_SIG))

\* C1: a command is in the list commands_poll returned (the list the run
\* loop dispatches from) only if a server key is configured, the command
\* carries a non-empty SIG_SERV and that signature verifies over the
\* canonical form of its {CMD1..CMD5, TS}; what is returned was listed by the
\* response; with no key configured the list is empty; and every command
\* acknowledgment of the iteration is for a command of that list, so a
\* dropped command is never acknowledged.
C1_OnlyVerifiedCommandsReturned ==
    /\ \A i \in DOMAIN cmds :
         /\ SERVER_PUBLIC_KEY_BASE64 # <<>>
         /\ Has(cmds[i], K.SIG_SERV)
         /\ Get(cmds[i], K.SIG_SERV) # <<>>
         /\ verify_with_public_b64(SERVER_PUBLIC_KEY_BASE64,
                to_canonical_string(SelectKeys(cmds[i], CommandSigned)),
                Get(cmds[i], K.SIG_SERV))
    /\ ret.op = "commands_poll" =>
         /\ ret.value = cmds
         /\ \A i \in DOMAIN ret.value :
              \E j \in DOMAIN ret.trace : ret.trace[j] = ret.value[i]
    /\ SERVER_PUBLIC_KEY_BASE64 = <<>> => cmds = <<>>
    /\ \A i \in DOMAIN outbox :
         outbox[i].path = CommandAckPath =>
           \E j \in DOMAIN cmds : GetOr(cmds[j], K.CMD1, <<>>) = outbox[i].CMD1

\* a poll whose response listed two commands returned one of them
C1_Witness ==
    /\ ret.op = "commands_poll"
    /\ ret.raised = ""
    /\ Len(ret.trace) = 2
    /\ Len(ret.value) = 1

\* C2: when no server key is configured, or the manifest has no FW_SIG or
\* one that does not verify, firmware_apply_flow starts no download, does
\* not reach the apply stage, sends nothing, leaves current_fw as it was and
\* returns False.
C2_RejectedManifestAborts ==
    [][ (pc \in FlowCalls /\ ~ManifestVerifies(fw_resp)) =>
          /\ ret'.op = "firmware_apply_flow"
          /\ \A i \in DOMAIN ret'.trace :
               ret'.trace[i] \notin {"download_started", "apply_stage"}
          /\ ret'.sent = <<>>
          /\ current_fw' = current_fw
          /\ ret'.raised = ""
          /\ ret'.value = FALSE ]_vars

\* C3: firmware_apply_flow reaches the apply stage only if the manifest
\* verified, the download succeeded and the digest of the downloaded bytes
\* was compared with the checksum of the manifest and found equal.
C3_ApplyOnlyAfterChecksumCompared ==
    (ret.op = "firmware_apply_flow" /\ Went("apply_stage")) =>
        /\ ManifestVerifies(ret.args[1])
        /\ ret.inputs.download # "fail"
        /\ Went("checksum_compared")
        /\ Has(ret.args[1], K.FW4)
        /\ sha256_hexdigest(ret.inputs.download) = Get(ret.args[1], K.FW4)

\* C4: when the manifest verified and the download succeeded but the digest
\* of the downloaded bytes differs from the checksum of the manifest, the
\* flow does not reach the apply stage, sends a firmware acknowledgment of
\* status ERROR and leaves current_fw as it was.
C4_ChecksumMismatchReported ==
    [][ ( /\ pc \in FlowCalls
          /\ ret'.op = "firmware_apply_flow"
          /\ ManifestVerifies(fw_resp)
          /\ \E i \in DOMAIN ret'.trace : ret'.trace[i] = "download_ok"
          /\ Has(fw_resp, K.FW4)
          /\ sha256_hexdigest(ret'.inputs.download) # Get(fw_resp, K.FW4) ) =>
          /\ \A i \in DOMAIN ret'.trace : ret'.trace[i] # "apply_stage"
          /\ \E i \in DOMAIN ret'.sent :
               /\ ret'.sent[i].path = FirmwareAckPath
               /\ GetOr(ret'.sent[i].tokens, K.ACK1, <<>>) = <<"ERROR">>
          /\ current_fw' = current_fw ]_vars

\* C5: when firmware_apply_flow reached the apply stage it sent exactly one
\* firmware acknowledgment, signed by the device, carrying the id and the
\* target version of the manifest, with ACK1 = OK and "Firmware applied
\* successfully" if the apply stage succeeded and ACK1 = ERROR and "Apply
\* failed, rolled back" if not; with force_fail the apply stage does not
\* succeed and the flow, when it returns, returns False.
C5_OneAckAfterApplyStage ==
    (ret.op = "firmware_apply_flow" /\ Went("apply_stage")) =>
        LET fw   == ret.args[1]
            acks == SelectSeq(ret.sent, LAMBDA m : m.path = FirmwareAckPath)
            ack  == acks[1].tokens
        IN  /\ Len(acks) = 1
            /\ Has(ack, K.SIG1)
            /\ verify_with_public_b64(public_key_b64, to_canonical_string(ack),
                                      Get(ack, K.SIG1))
            /\ Has(fw, K.FW1) => Get(ack, K.FW1) = Get(fw, K.FW1)
            /\ Has(fw, K.FW2) => Get(ack, K.FW2) = Get(fw, K.FW2)
            /\ Get(ack, K.ACK1) = (IF Went("applied") THEN <<"OK">> ELSE <<"ERROR">>)
            /\ Get(ack, K.ACK2) = (IF Went("applied")
                                   THEN <<"Firmware applied successfully">>
                                   ELSE <<"Apply failed, rolled back">>)
            /\ ret.args[2] => /\ ~Went("applied")
                               /\ ret.raised = "" => ret.value = FALSE

\* C6: current_fw changes only in a step that runs firmware_apply_flow to
\* a return of True, and then to the FW2 of the manifest; a flow that returns
\* False or raises, and every other step, leaves current_fw as it was.
C6_FirmwareChangesOnlyOnAppliedFlow ==
    [][ IF pc \in FlowCalls /\ ret'.raised = "" /\ ret'.value = TRUE
        THEN current_fw' = GetOr(fw_resp, K.FW2, current_fw)
        ELSE current_fw' = current_fw ]_vars

\* a flow returned True and current_fw is the FW2 of its manifest, which it
\* was not at construction
C6_Witness ==
    /\ ret.op = "firmware_apply_flow"
    /\ ret.value = TRUE
    /\ current_fw = Get(ret.args[1], K.FW2)
    /\ current_fw # FIRMWARE_VERSION

\* C7: _handle_command makes exactly one command_ack call, for the id of its
\* command: ok for RESTART and FETCH_LOGS, not ok and with a message naming
\* the type for any other type, which does not raise.  At most one message
\* goes out, the one of that call; when its post fails, the exception leaves
\* _handle_command and the loop over the commands (the handler of run_forever
\* is next, then the sleep), with no second attempt.
C7_HandleCommandAcksOnce ==
    ret.op = "_handle_command" =>
        LET cmd   == ret.args
            ctype == GetOr(cmd, K.CMD2, <<>>)
            call  == ret.trace[1]
        IN  /\ Len(ret.trace) = 1
            /\ call.cmd_id = GetOr(cmd, K.CMD1, <<>>)
            /\ call.ok = (ctype \in {<<"RESTART">>, <<"FETCH_LOGS">>})
            /\ ~call.ok => call.message = <<"unsupported command ">> \o ctype
            /\ Len(ret.sent) <= 1
            /\ \A i \in DOMAIN ret.sent :
                 /\ ret.sent[i].path = CommandAckPath
                 /\ Get(ret.sent[i].tokens, K.CMD1) = call.cmd_id
                 /\ Get(ret.sent[i].tokens, K.ACK1) =
                      (IF call.ok THEN <<"OK">> ELSE <<"ERROR">>)
                 /\ Get(ret.sent[i].tokens, K.ACK2) = call.message
            /\ ret.inputs.fault = "none" => (ret.raised = "" /\ Len(ret.sent) = 1)
            /\ ret.inputs.fault = "post" =>
                 /\ ret.raised = "aiohttp.ClientError"
                 /\ Len(ret.sent) = 1
                 /\ pc \in {"except", "sleep"}

\* a command of an unsupported type was acknowledged with ERROR, without an
\* exception
C7_Witness ==
    /\ ret.op = "_handle_command"
    /\ GetOr(ret.args, K.CMD2, <<>>) = <<"WIPE">>
    /\ ret.raised = ""
    /\ Len(ret.sent) = 1
    /\ Get(ret.sent[1].tokens, K.ACK1) = <<"ERROR">>

\* C8: when an iteration of the run loop ends (the loop sleeps), every
\* command that commands_poll returned in it has had an acknowledgment for
\* its id handed to the transport.
C8_EveryAcceptedCommandAcked ==
    pc = "sleep" =>
        \A i \in DOMAIN cmds :
            \E j \in DOMAIN outbox :
                /\ outbox[j].path = CommandAckPath
                /\ outbox[j].CMD1 = GetOr(cmds[i], K.CMD1, <<>>)

\* C9: the nonce of every message handed to the transport is in the nonce
\* ledger at that moment.
C9_NonceRecordedBeforeSend ==
    \A i \in DOMAIN ret.sent : ret.sent[i].recorded

\* C10: no message handed to the transport carries the nonce of a message
\* handed to it before.
C10_NoNonceReuse ==
    \A i \in DOMAIN ret.sent : ~ret.sent[i].repeats

\* the pc values of the `while True` loop of run_forever
LoopPcs == {"heartbeat", "commands", "handle", "firmware", "apply", "except",
            "sleep"}

\* C11: when the registration of run_forever gets a response whose S1 is
\* neither "registered" nor "ok", register raises RuntimeError and
\* run_forever ends there, with the registration message the only one sent;
\* nothing follows the end of run_forever (no second registration, no
\* heartbeat); and the loop is entered only from a registration whose
\* response carried an accepted S1.
C11_RejectedRegistrationIsFatal ==
    [][ /\ pc # "exited"
        /\ ( /\ pc = "run_forever"
             /\ ret'.op = "register"
             /\ ret'.trace # <<>>
             /\ ~( /\ Has(ret'.trace[1], K.S1)
                   /\ Get(ret'.trace[1], K.S1) \in {<<"registered">>, <<"ok">>} ) )
           => /\ ret'.raised = "RuntimeError"
              /\ pc' = "exited"
              /\ Len(outbox') = 1
              /\ outbox'[1].path = "/api/devices/register"
        /\ (pc \notin LoopPcs /\ pc' \in LoopPcs)
           => /\ pc = "run_forever"
              /\ pc' = "heartbeat"
              /\ ret'.op = "register"
              /\ ret'.raised = ""
              /\ Has(ret'.trace[1], K.S1)
              /\ Get(ret'.trace[1], K.S1) \in {<<"registered">>, <<"ok">>} ]_vars

\* run_forever ended on a registration the server answered with "denied"
C11_Witness ==
    /\ pc = "exited"
    /\ ret.op = "register"
    /\ ret.raised = "RuntimeError"
    /\ Get(ret.trace[1], K.S1) = <<"denied">>
    /\ Len(outbox) = 1

\* C12: once the loop of run_forever has been entered it is never left: every
\* step taken in the loop stays in the loop, and the step that handles a
\* failed iteration records the failure (an "error" row of the audit log) and
\* goes on to the sleep.
C12_LoopNeverTerminates ==
    [][ (pc \in LoopPcs) =>
          ( /\ pc' \in LoopPcs
            /\ pc = "except" =>
                 ( /\ pc' = "sleep"
                   /\ audit_log' = Append(audit_log, <<"error", "in">>) ) )
      ]_vars

\* the place of an exchange in the order of an iteration, by its path
StageOf(path) ==
    CASE path = "/api/devices/heartbeat" -> 1
      [] path = "/api/devices/commands" -> 2
      [] path = CommandAckPath -> 3
      [] path = "/api/devices/firmware/check" -> 4
      [] path = FirmwareAckPath -> 5
      [] OTHER -> 0

\* the exchanges of the iteration so far that are at stage n
AtStage(n) == {i \in DOMAIN outbox : StageOf(outbox[i].path) = n}

\* the order of the exchanges of an iteration, once its heartbeat was tried:
\* the heartbeat is first and there is one; then at most one poll, and only
\* if the heartbeat response held PENDING_CMDS > 0; then the command
\* acknowledgments; then at most one firmware check, and only if the
\* heartbeat response signalled firmware (FW_AVAILABLE:true, or an FW2); then
\* the update pipeline, only if the check returned S1 = update_available
IterationInOrder ==
    (pc \in LoopPcs \ {"heartbeat"}) =>
        /\ \A i \in DOMAIN outbox : StageOf(outbox[i].path) # 0
        /\ \A i, j \in DOMAIN outbox :
             i < j => StageOf(outbox[i].path) <= StageOf(outbox[j].path)
        /\ \A n \in {1, 2, 4, 5} : Cardinality(AtStage(n)) <= 1
        /\ outbox # <<>> => StageOf(outbox[1].path) = 1
        /\ pc \in {"commands", "handle", "firmware", "apply"} => AtStage(1) = {1}
        /\ AtStage(2) # {} =>
             /\ Has(resp, K.PENDING_CMDS)
             /\ IsInt(Get(resp, K.PENDING_CMDS))
             /\ int(Get(resp, K.PENDING_CMDS)) > 0
        /\ AtStage(3) # {} => AtStage(2) # {}
        /\ AtStage(4) # {} =>
             \/ GetOr(resp, K.FW_AVAILABLE, <<>>) = <<"true">>
             \/ GetOr(resp, K.FW2, <<>>) # <<>>
        /\ (pc = "apply" \/ AtStage(5) # {}) =>
             /\ AtStage(4) # {}
             /\ GetOr(fw_resp, K.S1, <<>>) = <<"update_available">>

\* C13: every state of an iteration keeps the order heartbeat, command poll,
\* command handling, firmware check, update pipeline, each under its
\* condition; and the iteration ends in the sleep and nowhere else, whether
\* it succeeded or failed: a step that leaves the body of the iteration goes
\* to the sleep, and the sleep is left for the next heartbeat only.
C13_IterationOrder ==
    [][ /\ IterationInOrder'
        /\ (pc \in LoopPcs \ {"sleep"}) => pc' \in LoopPcs
        /\ (pc = "sleep") => pc' = "heartbeat" ]_vars

\* C14: when a failed iteration has come to its sleep, the interval is twice
\* the interval of the previous sleep (before the first sleep: the interval
\* registration left), raised to the floor of 10 and cut at the ceiling
\* MAX_BACKOFF_SECONDS; so when the previous iteration had failed too the
\* interval has not decreased, and it stays at the ceiling once there.
C14_FailureDoublesInterval ==
    (pc = "sleep" /\ ret.raised # "") =>
        /\ backoff = (IF 2 * slept.interval < 10 THEN 10
                      ELSE IF 2 * slept.interval > MAX_BACKOFF_SECONDS
                           THEN MAX_BACKOFF_SECONDS
                      ELSE 2 * slept.interval)
        /\ slept.failed =>
              /\ backoff >= slept.interval
              /\ slept.interval = MAX_BACKOFF_SECONDS =>
                   backoff = MAX_BACKOFF_SECONDS

\* a run of failed iterations has doubled the interval up to the ceiling
C14_Witness ==
    /\ pc = "sleep"
    /\ ret.raised # ""
    /\ slept.failed
    /\ slept.interval = 480
    /\ backoff = MAX_BACKOFF_SECONDS

\* the response of the last operation, for the operations that keep it
LastResponse ==
    IF ret.op = "register" /\ ret.trace # <<>> THEN ret.trace[1]
    ELSE IF ret.op \in {"heartbeat_once", "firmware_check"} THEN ret.value
    ELSE <<>>

\* C15: after a registration, heartbeat or firmware check that succeeded
\* and whose response carried RTO = d, rto_sec is d raised to the floor of 10
\* and cut at the ceiling MAX_BACKOFF_SECONDS; and a successful iteration
\* goes to sleep for rto_sec.
C15_DirectiveSetsClampedInterval ==
    /\ ( /\ ret.raised = ""
         /\ Has(LastResponse, K.RTO)
         /\ IsInt(Get(LastResponse, K.RTO)) ) =>
           LET d == int(Get(LastResponse, K.RTO))
           IN  rto_sec = (IF d < 10 THEN 10
                          ELSE IF d > MAX_BACKOFF_SECONDS THEN MAX_BACKOFF_SECONDS
                          ELSE d)
    /\ (pc = "sleep" /\ ret.raised = "") => backoff = rto_sec

\* C16: when an iteration succeeded and neither its heartbeat response nor
\* its firmware check response carried an RTO, the sleep that ends it is for
\* DEFAULT_RTO_SECONDS.
C16_NoDirectiveSleepsDefault ==
    ( /\ pc = "sleep"
      /\ ret.raised = ""
      /\ ~Has(resp, K.RTO)
      /\ ~Has(fw_resp, K.RTO) ) => backoff = DEFAULT_RTO_SECONDS

\* C17: in every state rto_sec is at least the floor of 10 and at most the
\* ceiling MAX_BACKOFF_SECONDS, and so is the interval the loop sleeps for.
C17_IntervalWithinBounds ==
    /\ rto_sec >= 10
    /\ rto_sec <= MAX_BACKOFF_SECONDS
    /\ pc = "sleep" => (backoff >= 10 /\ backoff <= MAX_BACKOFF_SECONDS)

\* the operations of an iteration, each of which makes exchanges
LoopOps == {"heartbeat_once", "commands_poll", "_handle_command",
            "firmware_check", "firmware_apply_flow"}

\* the last operation of the iteration met a transport error: its post or
\* get raised, or the response had a non-success status
TransportError ==
    /\ pc \in LoopPcs
    /\ ret.op \in LoopOps
    /\ (ret.inputs.fault = "post" \/ ret.inputs.status # 200)

\* C18: an operation of the iteration that met a transport error (a raising
\* post or get, or a response of non-success status) raised, so that the
\* iteration is in its except clause or past it and acts no further on the
\* response; and the except clause then doubles the interval, within floor
\* and ceiling, and goes on to the sleep.
C18_TransportErrorFolded ==
    [][ /\ TransportError' => (ret'.raised # "" /\ pc' \in {"except", "sleep"})
        /\ (TransportError /\ pc = "except") =>
             /\ pc' = "sleep"
             /\ backoff' = (IF 2 * backoff < 10 THEN 10
                            ELSE IF 2 * backoff > MAX_BACKOFF_SECONDS
                                 THEN MAX_BACKOFF_SECONDS
                            ELSE 2 * backoff) ]_vars

\* C19: an operation in which an audit call failed (the one before the send,
\* the one after it, or the one that records an aborted update) raised
\* nothing, and when the call was one around an exchange the message of the
\* exchange was handed to the transport.
C19_AuditFailureDoesNotAbort ==
    ( /\ ret.op \in LoopOps \cup {"register"}
      /\ ret.inputs.fault \in {"audit_out", "audit_in", "audit_err"} ) =>
        /\ ret.raised = ""
        /\ ret.inputs.fault \in {"audit_out", "audit_in"} => Len(ret.sent) = 1

\* C20: when add_nonce failed in heartbeat_once, the exception leaves
\* run_forever: the step after it ends run_forever, it is not the step of
\* an ordinary failed iteration, which doubles the interval and sleeps.
C20_LedgerErrorPropagates ==
    [][ ( /\ pc = "except"
          /\ ret.op = "heartbeat_once"
          /\ ret.inputs.fault = "add_nonce" ) =>
          /\ pc' = "exited"
          /\ backoff' = backoff ]_vars

\* C24: current_fw changes in a firmware_apply_flow only after the
\* acknowledgment was posted without error: the OK acknowledgment was handed
\* to the transport and its response was recorded; and a flow whose apply
\* stage succeeded but which raised while sending the acknowledgment leaves
\* current_fw at the version it had.
C24_VersionAssignedAfterAck ==
    [][ (pc \in FlowCalls) =>
          ( /\ (current_fw' # current_fw) =>
                 ( /\ ret'.raised = ""
                   /\ current_fw' = GetOr(fw_resp, K.FW2, current_fw)
                   /\ \E i \in DOMAIN ret'.sent :
                        /\ ret'.sent[i].path = FirmwareAckPath
                        /\ Get(ret'.sent[i].tokens, K.ACK1) = <<"OK">>
                   /\ \E i \in DOMAIN ret'.audits :
                        ret'.audits[i] = <<"fw_ack", "in">> )
            /\ ( /\ \E i \in DOMAIN ret'.trace : ret'.trace[i] = "applied"
                 /\ ret'.raised # "" ) =>
                 current_fw' = current_fw ) ]_vars

\* the apply stage succeeded for a manifest of another version, the post of
\* the acknowledgment raised, and current_fw is the version of construction
C24_Witness ==
    /\ ret.op = "firmware_apply_flow"
    /\ Went("applied")
    /\ ret.raised = "aiohttp.ClientError"
    /\ Get(ret.args[1], K.FW2) # FIRMWARE_VERSION
    /\ current_fw = FIRMWARE_VERSION

(***************************************************************************)
(* toon.py called on its own: each function of the codec applied to the    *)
(* token mappings and the lists of field mappings a caller can build       *)
(***************************************************************************)

\* a token mapping holds at most MaxTokens entries
MaxTokens == 3

\* keys of token mappings handed to to_canonical_string: the three markers,
\* keys that begin with one, keys that a marker begins with, and others
CanonicalKeys ==
    { <<"A">>, <<"F", "W">>, <<"S", "I", "G">>, <<"S", "I", "G", "1">>,
      <<"F", "W", "_", "S", "I", "G">>,
      <<"S", "I", "G", "_", "S", "E", "R", "V">>, <<"Z">> }

\* the entries of these keys: a timestamp-like value, or None
CanonicalItems ==
    {<<k, <<"1", "0", ":", "3", "0">>>> : k \in CanonicalKeys}
        \cup {<<k>> : k \in CanonicalKeys}

\* keys of token mappings handed to build_payload: none is array-structured
WireKeys == { <<"A">>, <<"B">>, <<"S", "I", "G", "1">> }

\* their values, of type str: text, the empty string, text that holds ":",
\* text that holds "|", text that ends in a blank
WireValues ==
    { <<"x">>, <<>>, <<"1", "0", ":", "3", "0">>, <<"a", "|", "b">>,
      <<"x", " ">> }

WireItems == WireKeys \X WireValues

\* the dicts of at most MaxTokens of these items, in every insertion order
DictsOf(items) ==
    { d \in UNION { [1..n -> items] : n \in 0..MaxTokens } :
        \A i, j \in DOMAIN d : i # j => d[i][1] # d[j][1] }

\* a command as a flat field mapping: no field, one field or two, in either
\* order, a field None
FieldMappings ==
    { <<>>,
      << <<<<"I", "D">>, <<"c1">>>> >>,
      << <<<<"I", "D">>, <<"c2">>>> >>,
      << <<<<"I", "D">>, <<"c1">>>>, <<<<"T", "Y", "P", "E">>, <<"PING">>>> >>,
      << <<<<"T", "Y", "P", "E">>, <<"PING">>>>, <<<<"I", "D">>, <<"c1">>>> >>,
      << <<<<"I", "D">>, <<"c1">>>>, <<<<"A", "R", "G", "S">>>> >> }

\* the lists of at most MaxCmds commands
FieldMappingLists == UNION { [1..n -> FieldMappings] : n \in 0..MaxCmds }

CMD == <<"C", "M", "D">>

\* a call of function op on argument arg, not yet made
Call(op, arg) ==
    [ Step(op, "") EXCEPT !.args = <<arg>>, !.inputs = [argument |-> arg] ]

\* the call of function op on args has returned value; inputs keeps the
\* argument the caller started from
Returned(op, args, value) ==
    [ Step(op, "") EXCEPT !.args = args, !.value = value, !.inputs = ret.inputs ]

\* DeviceClient is not running: its fields are as __init__ leaves them
ClientIdle ==
    /\ SERVER_PUBLIC_KEY_BASE64 = <<>>
    /\ server = "idle"
    /\ iteration = 0
    /\ rto_sec = DEFAULT_RTO_SECONDS
    /\ current_fw = FIRMWARE_VERSION
    /\ backoff = 0
    /\ resp = <<>>
    /\ cmds = <<>>
    /\ ci = 1
    /\ fw_resp = <<>>
    /\ ledger = {}
    /\ emitted = {}
    /\ outbox = <<>>
    /\ audit_log = <<>>
    /\ slept = [interval |-> 0, failed |-> FALSE]

CodecInit ==
    /\ ClientIdle
    /\ \/ \E t \in DictsOf(CanonicalItems) :
            pc = "to_canonical_string" /\ ret = Call("to_canonical_string", t)
       \/ \E t \in DictsOf(WireItems) :
            pc = "build_payload" /\ ret = Call("build_payload", t)
       \/ \E s \in FieldMappingLists :
            pc = "build_array_tokens" /\ ret = Call("build_array_tokens", s)

CodecUnchanged ==
    UNCHANGED << SERVER_PUBLIC_KEY_BASE64, server, iteration, rto_sec,
                 current_fw, backoff, resp, cmds, ci, fw_resp, ledger,
                 emitted, outbox, audit_log, slept >>

\* to_canonical_string(tokens)
Canonicalize ==
    /\ pc = "to_canonical_string"
    /\ ret' = Returned("to_canonical_string", ret.args,
                       to_canonical_string(ret.args[1]))
    /\ pc' = "returned"
    /\ CodecUnchanged

\* payload = build_payload(tokens)
BuildPayload ==
    /\ pc = "build_payload"
    /\ ret' = Returned("build_payload", ret.args, build_payload(ret.args[1]))
    /\ pc' = "parse_tokens"
    /\ CodecUnchanged

\* parse_tokens(payload)
ParseTokens ==
    /\ pc = "parse_tokens"
    /\ ret' = Returned("parse_tokens", <<ret.value>>, parse_tokens(ret.value))
    /\ pc' = "returned"
    /\ CodecUnchanged

\* tokens = build_array_tokens(items, "CMD")
BuildArrayTokens ==
    /\ pc = "build_array_tokens"
    /\ ret' = Returned("build_array_tokens", <<ret.args[1], CMD>>,
                       build_array_tokens(ret.args[1], CMD))
    /\ pc' = "parse_array_tokens"
    /\ CodecUnchanged

\* parse_array_tokens(tokens, "CMD")
ParseArrayTokens ==
    /\ pc = "parse_array_tokens"
    /\ ret' = Returned("parse_array_tokens", <<ret.value, CMD>>,
                       parse_array_tokens(ret.value, CMD))
    /\ pc' = "returned"
    /\ CodecUnchanged

CodecNext ==
    \/ Canonicalize
    \/ BuildPayload
    \/ ParseTokens
    \/ BuildArrayTokens
    \/ ParseArrayTokens

CodecSpec == CodecInit /\ [][CodecNext]_vars

(***************************************************************************)
(* The codec (CodecSpec)                                                   *)
(***************************************************************************)

\* the reserved signature markers
Markers ==
    { <<"S", "I", "G">>, <<"F", "W", "_", "S", "I", "G">>,
      <<"S", "I", "G", "_", "S", "E", "R", "V">> }

\* key k equals a marker or begins with one
MarkerPrefixed(k) ==
    \E m \in Markers :
        Len(k) >= Len(m) /\ \A j \in 1..Len(m) : k[j] = m[j]

\* the entries a canonical text lists, in its order: the text is cut at
\* each "|", and each part at its first ":" into key and value
RECURSIVE CutAt(_, _)
CutAt(text, c) ==
    IF \A i \in DOMAIN text : text[i] # c THEN <<text>>
    ELSE LET at == CHOOSE i \in DOMAIN text :
                       text[i] = c /\ \A j \in 1..(i - 1) : text[j] # c
         IN  <<SubSeq(text, 1, at - 1)>>
             \o CutAt(SubSeq(text, at + 1, Len(text)), c)

EntriesOf(text) ==
    IF text = <<>> THEN <<>>
    ELSE LET parts == CutAt(text, "|")
         IN  [i \in DOMAIN parts |->
                LET kv == CutAt(parts[i], ":")
                IN  << kv[1],
                       SubSeq(parts[i], Len(kv[1]) + 2, Len(parts[i])) >>]

\* two dicts hold the same entries, whatever their insertion order
SameMapping(a, b) == {a[i] : i \in DOMAIN a} = {b[i] : i \in DOMAIN b}

\* C21: the text to_canonical_string returned for a token mapping lists no
\* entry whose key equals or begins with a reserved signature marker and
\* none of a None value; it lists exactly the other entries of the mapping,
\* ascending by key; and the mapping in any other insertion order gives the
\* same text.
C21_CanonicalFormDeterministic ==
    (pc = "returned" /\ ret.op = "to_canonical_string") =>
        LET tokens == ret.inputs.argument
            listed == EntriesOf(ret.value)
        IN  /\ \A i \in DOMAIN listed : ~MarkerPrefixed(listed[i][1])
            /\ {listed[i] : i \in DOMAIN listed}
                 = { tokens[i] : i \in { j \in DOMAIN tokens :
                        Len(tokens[j]) = 2 /\ ~MarkerPrefixed(tokens[j][1]) } }
            /\ \A i, j \in DOMAIN listed :
                 i < j => StrLess(listed[i][1], listed[j][1])
            /\ \A q \in Permutations(DOMAIN tokens) :
                 to_canonical_string([i \in DOMAIN tokens |-> tokens[q[i]]])
                   = ret.value

\* a mapping that held Z, then a signature, then A gave the text of A and Z
C21_Witness ==
    /\ pc = "returned"
    /\ ret.op = "to_canonical_string"
    /\ Len(ret.inputs.argument) = 3
    /\ ret.inputs.argument[1][1] = <<"Z">>
    /\ ret.inputs.argument[2][1] = <<"S", "I", "G", "1">>
    /\ Len(ret.inputs.argument[2]) = 2
    /\ ret.inputs.argument[3][1] = <<"A">>
    /\ ret.value = <<"A", ":", "1", "0", ":", "3", "0", "|",
                     "Z", ":", "1", "0", ":", "3", "0">>

\* C22: the mapping parse_tokens returned for the payload build_payload made
\* of a token mapping (no key array-structured) holds the entries of that
\* mapping.
C22_PayloadRoundTrip ==
    (pc = "returned" /\ ret.op = "parse_tokens") =>
        SameMapping(ret.value, ret.inputs.argument)

\* C23: the list parse_array_tokens returned for the tokens build_array_tokens
\* made of a list of field mappings has the length of that list and, at each
\* position, the fields and values of its element.
C23_ArrayRoundTrip ==
    (pc = "returned" /\ ret.op = "parse_array_tokens") =>
        /\ Len(ret.value) = Len(ret.inputs.argument)
        /\ \A i \in DOMAIN ret.value :
             SameMapping(ret.value[i], ret.inputs.argument[i])

=============================================================================
